---- MODULE Spec2Model ----
(***************************************************************************)
(* Priority-aware traffic routing: the scenario -> formulate -> solve ->   *)
(* decode pipeline (traffic_simulator.py, qubo_builder.py, solver.py), the *)
(* ranking heuristic (priority_logic.py) and the candidate-route           *)
(* enumeration (network_builder.py).                                       *)
(*                                                                         *)
(* Python lists are sequences; list index i is sequence index i + 1.       *)
(* QUBO coefficients are floats that are sums of -2, +2 and                *)
(* congestion_weight * (1/p1 + 1/p2) with p in {1, 100}; they are kept     *)
(* here as exact integers in units of 1/Unit.                              *)
(***************************************************************************)
EXTENDS Integers, Sequences, FiniteSets, TLC

VARIABLES
    pc,               \* position in the pipeline
    num_pairs,        \* num_pairs argument of generate_od_pairs
    attempts,         \* attempts counter of generate_od_pairs
    od_pairs,         \* list of (origin, destination) tuples
    emergency_ratio,  \* emergency_ratio argument of generate_vehicles, in percent
    routes_dict,      \* routes table given to assign_routes_to_vehicles
    congested_edges,  \* congested_edges argument of select_preferred_routes
    vehicles,         \* list of vehicle dicts
    variable_map,     \* dict (vid, r_idx) -> name, in insertion order
    Q,                \* QUBO dict (name, name) -> coefficient
    bqm,              \* BinaryQuadraticModel built from Q
    method,           \* method argument of solve_traffic_qubo
    calls,            \* solver backends invoked by solve_traffic_qubo, in order
    sample,           \* best sample returned by the backend
    selected_routes,  \* result of decode_solution
    preferred_routes, \* result of select_preferred_routes
    raised,           \* the function whose exception reached the caller, or "none"
    graph,            \* G of a find_candidate_routes call
    request,          \* its arguments origin, destination, k, timeout_paths
    routes            \* the list it returned

vars == <<pc, num_pairs, attempts, od_pairs, emergency_ratio, routes_dict,
          congested_edges, vehicles, variable_map, Q, bqm, method, calls, sample,
          selected_routes, preferred_routes, raised, graph, request, routes>>

pipeline_vars == <<emergency_ratio, routes_dict, congested_edges, vehicles,
                   variable_map, Q, bqm, method, calls, sample,
                   selected_routes, preferred_routes, raised>>

od_vars == <<num_pairs, attempts>>

routes_vars == <<graph, request, routes>>

----------------------------------------------------------------------------
(* Bounds of the model *)

MaxVehicles == 2
MaxRoutes == 2
NumNodes == 3
MaxPairs == 2

(* Program constants *)

EmergencyPriority == 100
RegularPriority == 1
CongestionWeight == 1
TimeoutPaths == 100
MaxAttemptsFactor == 10

Unit == EmergencyPriority

----------------------------------------------------------------------------
(* Generic helpers *)

Range(s) == {s[i] : i \in DOMAIN s}

Max(a, b) == IF a >= b THEN a ELSE b

Min(a, b) == IF a <= b THEN a ELSE b

RECURSIVE Concat(_)
Concat(ss) == IF ss = <<>> THEN <<>> ELSE Head(ss) \o Concat(Tail(ss))

RECURSIVE SumSeq(_)
SumSeq(s) == IF s = <<>> THEN 0 ELSE Head(s) + SumSeq(Tail(s))

RECURSIVE SetToSeq(_)
SetToSeq(S) ==
    IF S = {} THEN <<>>
    ELSE LET x == CHOOSE y \in S : TRUE IN <<x>> \o SetToSeq(S \ {x})

None == <<>>

----------------------------------------------------------------------------
(* network_builder.py: find_candidate_routes *)

(* A graph is its node set and the travel_time of each undirected edge.     *)
Neighbours(g, n) == {m \in g.nodes : {n, m} \in DOMAIN g.travel_time}

RECURSIVE PathsFrom(_, _, _)
PathsFrom(g, path, target) ==
    IF path[Len(path)] = target THEN {path}
    ELSE UNION {PathsFrom(g, Append(path, n), target) :
                   n \in Neighbours(g, path[Len(path)]) \ Range(path)}

SimplePaths(g, source, target) ==
    IF source \in g.nodes /\ target \in g.nodes
    THEN PathsFrom(g, <<source>>, target)
    ELSE {}

RouteEdges(route) == [i \in 1..(Len(route) - 1) |-> <<route[i], route[i + 1]>>]

TravelTime(g, path) ==
    SumSeq([i \in 1..(Len(path) - 1) |-> g.travel_time[{path[i], path[i + 1]}]])

Cheapest(g, paths) == {p \in paths : \A q \in paths : TravelTime(g, p) <= TravelTime(g, q)}

Fewest(paths) == {p \in paths : \A q \in paths : Len(p) <= Len(q)}

(* nx.shortest_simple_paths yields the simple paths one by one, cheapest    *)
(* remaining first; islice stops it after n of them. Every order in which   *)
(* paths of equal travel_time can come out is a possible listing.           *)
(* Listings with the paths in any order. *)
RECURSIVE ListingsAnyOrder(_, _, _)
ListingsAnyOrder(g, paths, n) ==
    IF n = 0 \/ paths = {} THEN {<<>>}
    ELSE UNION {{<<p>> \o rest : rest \in ListingsAnyOrder(g, paths \ {p}, n - 1)} :
                   p \in paths}

RECURSIVE Listings(_, _, _)
Listings(g, paths, n) ==
    IF n = 0 \/ paths = {} THEN {<<>>}
    ELSE UNION {{<<p>> \o rest : rest \in Listings(g, paths \ {p}, n - 1)} :
                   p \in Cheapest(g, paths)}

(* The try block: how it can end. islice raises ValueError for a negative   *)
(* count and never starts the generator for a count of 0; the generator     *)
(* raises NodeNotFound or NetworkXNoPath at its first step.                 *)
TryShortestSimplePaths(g, origin, destination, k, timeout_paths) ==
    LET paths == SimplePaths(g, origin, destination)
        count == Min(k, timeout_paths)
    IN IF count < 0 THEN {[exception |-> "Exception", routes |-> <<>>]}
       ELSE IF count = 0 THEN {[exception |-> "none", routes |-> <<>>]}
       ELSE IF origin \notin g.nodes \/ destination \notin g.nodes
            THEN {[exception |-> "Exception", routes |-> <<>>]}
       ELSE IF paths = {} THEN {[exception |-> "NetworkXNoPath", routes |-> <<>>]}
       ELSE {[exception |-> "none", routes |-> l] : l \in Listings(g, paths, count)}

(* nx.shortest_path: the paths it can return; none when it raises.          *)
ShortestPath(g, origin, destination, weighted) ==
    IF weighted THEN Cheapest(g, SimplePaths(g, origin, destination))
    ELSE Fewest(SimplePaths(g, origin, destination))

(* The two except blocks: one more attempt, then the direct connection.     *)
HandleException(g, origin, destination, attempt) ==
    IF attempt.exception = "none" THEN {attempt.routes}
    ELSE LET found == ShortestPath(g, origin, destination,
                                   attempt.exception = "Exception")
         IN IF found = {} THEN {Append(attempt.routes, <<origin, destination>>)}
            ELSE {Append(attempt.routes, p) : p \in found}

(* EnsureRoute without the final check. *)
EnsureRouteSkipped(rs, origin, destination) == rs

EnsureRoute(rs, origin, destination) ==
    IF rs = <<>> THEN <<<<origin, destination>>>> ELSE rs

(* Every list find_candidate_routes can return.                             *)
FindCandidateRoutes(g, origin, destination, k, timeout_paths) ==
    IF origin = destination THEN {<< <<origin>> >>}
    ELSE {EnsureRoute(rs, origin, destination) :
            rs \in UNION {HandleException(g, origin, destination, attempt) :
                attempt \in TryShortestSimplePaths(g, origin, destination,
                                                  k, timeout_paths)}}

EdgePairs == {{n, m} : n, m \in 1..NumNodes} \ {{n} : n \in 1..NumNodes}

TravelTimes == {1, 2}

Graphs ==
    UNION {{[nodes |-> 1..NumNodes, travel_time |-> t] : t \in [edges -> TravelTimes]} :
              edges \in SUBSET EdgePairs}

(* Node 0 is in no graph. *)
Requests ==
    [origin : 0..NumNodes, destination : 0..NumNodes,
     k : {0 - 1} \cup (0..MaxRoutes), timeout_paths : {0, 1, TimeoutPaths}]

----------------------------------------------------------------------------
(* The road network the scenarios are drawn from, and the routes tables    *)
(* build_network_pipeline makes of it: find_candidate_routes per OD pair.  *)
(* Path travel times between two nodes are pairwise different.             *)

Network ==
    [nodes |-> 1..6,
     travel_time |-> ({1, 2} :> 1) @@ ({2, 3} :> 1) @@ ({1, 3} :> 3)
                     @@ ({3, 4} :> 1) @@ ({1, 4} :> 5) @@ ({2, 4} :> 5)
                     @@ ({5, 6} :> 1) @@ ({4, 5} :> 1) @@ ({4, 6} :> 1)]

NetworkEdges ==
    {<<2, 1>>, <<2, 3>>, <<1, 3>>, <<3, 4>>, <<1, 4>>, <<2, 4>>,
     <<5, 6>>, <<4, 5>>, <<4, 6>>}

ODPairs == {<<1, 3>>, <<3, 1>>, <<1, 4>>, <<5, 6>>}

RoutesDict(k, present) ==
    [od \in present |->
        CHOOSE r \in FindCandidateRoutes(Network, od[1], od[2], k, TimeoutPaths) : TRUE]

(* The table holds every OD pair, every pair but one, or none.              *)
PresentSets == {ODPairs, ODPairs \ {<<1, 3>>}, {}}

RoutesDicts ==
    {RoutesDict(k, present) : k \in 1..MaxRoutes, present \in PresentSets}

ODLists == UNION {[1..n -> ODPairs] : n \in 0..MaxVehicles}

EmergencyRatios == {20, 50, 100}

----------------------------------------------------------------------------
(* traffic_simulator.py *)

NumEmergency(n, ratio) == Max(1, (n * ratio) \div 100)

(* set(random.sample(population, k)): k distinct elements, any of them.    *)
RandomSample(population, k) ==
    {s \in SUBSET population : Cardinality(s) = k}

GenerateVehiclesList(ods, emergency_indices) ==
    [i \in 1..Len(ods) |->
        [vehicle_id |-> i - 1,
         origin |-> ods[i][1],
         destination |-> ods[i][2],
         type |-> IF (i - 1) \in emergency_indices THEN "emergency" ELSE "regular",
         priority_weight |-> IF (i - 1) \in emergency_indices
                             THEN EmergencyPriority ELSE RegularPriority]]

(* AssignRoutes that attaches the direct connection when the entry is     *)
(* absent.                                                                 *)
AssignRoutesWithFallback(vs, rd) ==
    [i \in 1..Len(vs) |->
        [vehicle_id |-> vs[i].vehicle_id,
         origin |-> vs[i].origin,
         destination |-> vs[i].destination,
         type |-> vs[i].type,
         priority_weight |-> vs[i].priority_weight,
         candidate_routes |->
            IF <<vs[i].origin, vs[i].destination>> \in DOMAIN rd
            THEN rd[<<vs[i].origin, vs[i].destination>>]
            ELSE <<<<vs[i].origin, vs[i].destination>>>>]]

AssignRoutes(vs, rd) ==
    [i \in 1..Len(vs) |->
        [vehicle_id |-> vs[i].vehicle_id,
         origin |-> vs[i].origin,
         destination |-> vs[i].destination,
         type |-> vs[i].type,
         priority_weight |-> vs[i].priority_weight,
         candidate_routes |->
            IF <<vs[i].origin, vs[i].destination>> \in DOMAIN rd
            THEN rd[<<vs[i].origin, vs[i].destination>>]
            ELSE <<>>]]

----------------------------------------------------------------------------
(* qubo_builder.py *)

(* VarName that leaves the vehicle id out of the name.                      *)
VarNameOfRoute(vid, r_idx) == <<"x", r_idx>>

VarName(vid, r_idx) == <<"x", vid, r_idx>>

CreateQuboVariables(vs) ==
    Concat([i \in 1..Len(vs) |->
        [r \in 1..Len(vs[i].candidate_routes) |->
            [key |-> <<vs[i].vehicle_id, r - 1>>,
             name |-> VarName(vs[i].vehicle_id, r - 1)]]])

Lookup(vm, key) == (CHOOSE e \in Range(vm) : e.key = key).name

(* AddTerm that assigns the contribution instead of adding it. *)
AddTermOverwrite(q, t) ==
    IF t.key \in DOMAIN q
    THEN [q EXCEPT ![t.key] = t.coeff]
    ELSE q @@ (t.key :> t.coeff)

AddTerm(q, t) ==
    IF t.key \in DOMAIN q
    THEN [q EXCEPT ![t.key] = @ + t.coeff]
    ELSE q @@ (t.key :> t.coeff)

RECURSIVE Accumulate(_, _)
Accumulate(q, terms) ==
    IF terms = <<>> THEN q
    ELSE Accumulate(AddTerm(q, Head(terms)), Tail(terms))

(* ConstraintTerms with the pair penalty halved. *)
ConstraintTermsHalfPenalty(vs, vm) ==
    Concat([n \in 1..Len(vs) |->
        LET vid == vs[n].vehicle_id
            m == Len(vs[n].candidate_routes)
        IN Concat([i \in 1..m |->
              <<[key |-> <<Lookup(vm, <<vid, i - 1>>), Lookup(vm, <<vid, i - 1>>)>>,
                 coeff |-> (0 - 2) * Unit]>>
              \o [jj \in 1..(m - 1) |->
                    LET j == IF jj < i THEN jj ELSE jj + 1
                    IN [key |-> <<Lookup(vm, <<vid, i - 1>>), Lookup(vm, <<vid, j - 1>>)>>,
                        coeff |-> Unit]]])])

ConstraintTerms(vs, vm) ==
    Concat([n \in 1..Len(vs) |->
        LET vid == vs[n].vehicle_id
            m == Len(vs[n].candidate_routes)
        IN Concat([i \in 1..m |->
              <<[key |-> <<Lookup(vm, <<vid, i - 1>>), Lookup(vm, <<vid, i - 1>>)>>,
                 coeff |-> (0 - 2) * Unit]>>
              \o [jj \in 1..(m - 1) |->
                    LET j == IF jj < i THEN jj ELSE jj + 1
                    IN [key |-> <<Lookup(vm, <<vid, i - 1>>), Lookup(vm, <<vid, j - 1>>)>>,
                        coeff |-> 2 * Unit]]])])

Usages(vs) ==
    Concat([n \in 1..Len(vs) |->
        Concat([r \in 1..Len(vs[n].candidate_routes) |->
            LET edges == RouteEdges(vs[n].candidate_routes[r])
            IN [e \in 1..Len(edges) |->
                  [edge |-> edges[e],
                   user |-> <<vs[n].vehicle_id, r - 1, vs[n].priority_weight>>]]])])

RECURSIVE FirstSeen(_, _)
FirstSeen(us, seen) ==
    IF us = <<>> THEN <<>>
    ELSE IF Head(us).edge \in seen THEN FirstSeen(Tail(us), seen)
    ELSE <<Head(us).edge>> \o FirstSeen(Tail(us), seen \cup {Head(us).edge})

EdgeKey(edge) == edge

EdgeUsage(vs) ==
    LET us == [i \in 1..Len(Usages(vs)) |->
                 [edge |-> EdgeKey(Usages(vs)[i].edge), user |-> Usages(vs)[i].user]]
        users(e) == LET hit == SelectSeq(us, LAMBDA u : u.edge = e)
                    IN [i \in 1..Len(hit) |-> hit[i].user]
        order == FirstSeen(us, {})
    IN [i \in 1..Len(order) |-> [edge |-> order[i], users |-> users(order[i])]]

(* Penalty with 1 / (p1 * p2) in place of 1/p1 + 1/p2. *)
PenaltyOfProduct(congestion_weight, p1, p2) ==
    congestion_weight * (Unit \div (p1 * p2))

Penalty(congestion_weight, p1, p2) ==
    congestion_weight * ((Unit \div p1) + (Unit \div p2))

ConflictTerms(vs, vm, congestion_weight) ==
    LET eu == EdgeUsage(vs)
    IN Concat([n \in 1..Len(eu) |->
          LET users == eu[n].users
          IN IF Len(users) > 1
             THEN Concat([i \in 1..Len(users) |->
                    [d \in 1..(Len(users) - i) |->
                       LET u1 == users[i]
                           u2 == users[i + d]
                       IN [key |-> <<Lookup(vm, <<u1[1], u1[2]>>),
                                     Lookup(vm, <<u2[1], u2[2]>>)>>,
                           coeff |-> Penalty(congestion_weight, u1[3], u2[3])]]])
             ELSE <<>>])

(* BuildQubo that adds to the coefficients of the previous call instead of *)
(* starting from an empty dict.                                            *)
BuildQuboOntoPrevious(vs, vm, congestion_weight) ==
    Accumulate(Accumulate(Q, ConstraintTerms(vs, vm)),
               ConflictTerms(vs, vm, congestion_weight))

BuildQubo(vs, vm, congestion_weight) ==
    Accumulate(Accumulate(<<>>, ConstraintTerms(vs, vm)),
               ConflictTerms(vs, vm, congestion_weight))

(* The objective of a QUBO dict: the sum over its entries of               *)
(* coeff * x_i * x_j.                                                       *)
QuboObjective(q, x) ==
    LET keys == SetToSeq(DOMAIN q)
    IN SumSeq([i \in 1..Len(keys) |-> q[keys[i]] * x[keys[i][1]] * x[keys[i][2]]])

(* dimod.BinaryQuadraticModel.from_qubo: diagonal entries become linear     *)
(* biases, (u, v) and (v, u) are summed into one quadratic bias.            *)
BuildBqm(q) ==
    LET names == {key[1] : key \in DOMAIN q} \cup {key[2] : key \in DOMAIN q}
        at(u, v) == IF <<u, v>> \in DOMAIN q THEN q[<<u, v>>] ELSE 0
        pairs == {{key[1], key[2]} : key \in {kk \in DOMAIN q : kk[1] # kk[2]}}
    IN [variables |-> names,
        linear |-> [v \in names |-> at(v, v)],
        quadratic |-> [p \in pairs |->
            LET u == CHOOSE a \in p : TRUE
                v == CHOOSE b \in p : b # u
            IN at(u, v) + at(v, u)]]

Energy(b, x) ==
    LET lin == SetToSeq(b.variables)
        quad == SetToSeq(DOMAIN b.quadratic)
    IN SumSeq([i \in 1..Len(lin) |-> b.linear[lin[i]] * x[lin[i]]])
       + SumSeq([i \in 1..Len(quad) |->
            LET u == CHOOSE a \in quad[i] : TRUE
                v == CHOOSE c \in quad[i] : c # u
            IN b.quadratic[quad[i]] * x[u] * x[v]])

----------------------------------------------------------------------------
(* solver.py *)

Samples(b) == [b.variables -> {0, 1}]

(* dimod.ExactSolver: every assignment is evaluated and sampleset.first is  *)
(* one of lowest energy; with no variables the sample set is empty.         *)
ExactSamples(b) ==
    LET energies == {Energy(b, x) : x \in Samples(b)}
        lowest == CHOOSE e \in energies : \A f \in energies : e <= f
    IN {x \in Samples(b) : Energy(b, x) = lowest}

Get(smp, name) == IF name \in DOMAIN smp THEN smp[name] ELSE 0

(* DecodeFrom that keeps the first route written for a vehicle. *)
RECURSIVE DecodeFromFirstWins(_, _, _, _)
DecodeFromFirstWins(sel, smp, vm, vs) ==
    IF vm = <<>> THEN sel
    ELSE LET vid == Head(vm).key[1]
             r_idx == Head(vm).key[2]
             route == vs[vid + 1].candidate_routes[r_idx + 1]
         IN DecodeFromFirstWins(
               IF Get(smp, Head(vm).name) = 1 /\ vid \notin DOMAIN sel
               THEN [v \in DOMAIN sel \cup {vid} |-> IF v = vid THEN route ELSE sel[v]]
               ELSE sel,
               smp, Tail(vm), vs)

RECURSIVE DecodeFrom(_, _, _, _)
DecodeFrom(sel, smp, vm, vs) ==
    IF vm = <<>> THEN sel
    ELSE LET vid == Head(vm).key[1]
             r_idx == Head(vm).key[2]
             route == vs[vid + 1].candidate_routes[r_idx + 1]
         IN DecodeFrom(
               IF Get(smp, Head(vm).name) = 1
               THEN [v \in DOMAIN sel \cup {vid} |-> IF v = vid THEN route ELSE sel[v]]
               ELSE sel,
               smp, Tail(vm), vs)

DecodeSolution(smp, vm, vs) == DecodeFrom(<<>>, smp, vm, vs)

SolveWithSimulatedAnnealing(b) == {[ok |-> TRUE, sample |-> x] : x \in Samples(b)}

SolveExact(b) ==
    IF b.variables = {}
    THEN {[ok |-> FALSE, sample |-> <<>>]}
    ELSE {[ok |-> TRUE, sample |-> x] : x \in ExactSamples(b)}

(* The remote call either fails (import, authentication, timeout, quota)    *)
(* or returns the service's best sample.                                    *)
SolveWithDwaveHybrid(b) ==
    {[ok |-> FALSE, sample |-> <<>>]} \cup {[ok |-> TRUE, sample |-> x] : x \in Samples(b)}

(* Backend that takes every method other than "dwave" for the exact        *)
(* solver.                                                                  *)
BackendExactByDefault(m) ==
    IF m = "dwave" THEN "solve_with_dwave_hybrid" ELSE "solve_exact"

Backend(m) ==
    IF m = "exact" THEN "solve_exact"
    ELSE IF m = "dwave" THEN "solve_with_dwave_hybrid"
    ELSE "solve_with_simulated_annealing"

BackendOutcomes(fn, b) ==
    IF fn = "solve_exact" THEN SolveExact(b)
    ELSE IF fn = "solve_with_dwave_hybrid" THEN SolveWithDwaveHybrid(b)
    ELSE SolveWithSimulatedAnnealing(b)

(* solve_traffic_qubo that falls back to simulated annealing when the       *)
(* backend raises.                                                          *)
SolveTrafficQuboRunsWithFallback(m, b, vm, vs) ==
    {[calls |-> <<Backend(m)>>,
      raised |-> "none",
      sample |-> o.sample,
      selected_routes |-> DecodeSolution(o.sample, vm, vs)]
        : o \in {oo \in BackendOutcomes(Backend(m), b) : oo.ok}}
    \cup
    {[calls |-> <<Backend(m), "solve_with_simulated_annealing">>,
      raised |-> "none",
      sample |-> o.sample,
      selected_routes |-> DecodeSolution(o.sample, vm, vs)]
        : o \in {oo \in SolveWithSimulatedAnnealing(b) :
                    \E f \in BackendOutcomes(Backend(m), b) : ~f.ok}}

(* solve_traffic_qubo: every way one call can end. An exception of the      *)
(* backend is not caught, so nothing is decoded and nothing is returned.    *)
SolveTrafficQuboRuns(m, b, vm, vs) ==
    {[calls |-> <<Backend(m)>>,
      raised |-> IF o.ok THEN "none" ELSE Backend(m),
      sample |-> o.sample,
      selected_routes |-> IF o.ok THEN DecodeSolution(o.sample, vm, vs) ELSE <<>>]
        : o \in BackendOutcomes(Backend(m), b)}

Methods == {"exact", "sa", "dwave", "qaoa"}

----------------------------------------------------------------------------
(* priority_logic.py *)

(* The score vehicle_priority / (1 + congestion_penalty), kept as the pair  *)
(* <<numerator, denominator>>.                                              *)
ComputeRoutePriority(route_edges, congested, vehicle_priority) ==
    LET hits == {i \in 1..Len(route_edges) :
                    \/ route_edges[i] \in congested
                    \/ <<route_edges[i][2], route_edges[i][1]>> \in congested}
    IN <<vehicle_priority, 1 + Cardinality(hits)>>

ScoreLess(a, b) == a[1] * b[2] < b[1] * a[2]

(* list.sort(key = score, reverse = True) is stable: an element goes after  *)
(* every element whose score is not smaller.                                *)
(* InsertRanked that puts an element before the elements of equal score.   *)
RECURSIVE InsertRankedBeforeEqual(_, _)
InsertRankedBeforeEqual(sorted, x) ==
    IF sorted = <<>> THEN <<x>>
    ELSE IF ~ScoreLess(x.score, Head(sorted).score) THEN <<x>> \o sorted
    ELSE <<Head(sorted)>> \o InsertRankedBeforeEqual(Tail(sorted), x)

RECURSIVE InsertRanked(_, _)
InsertRanked(sorted, x) ==
    IF sorted = <<>> THEN <<x>>
    ELSE IF ScoreLess(Head(sorted).score, x.score) THEN <<x>> \o sorted
    ELSE <<Head(sorted)>> \o InsertRanked(Tail(sorted), x)

RECURSIVE SortRanked(_, _)
SortRanked(sorted, rest) ==
    IF rest = <<>> THEN sorted
    ELSE SortRanked(InsertRanked(sorted, Head(rest)), Tail(rest))

RankVehicleRoutes(vehicle, congested) ==
    SortRanked(<<>>,
        [r \in 1..Len(vehicle.candidate_routes) |->
            [route |-> vehicle.candidate_routes[r],
             score |-> ComputeRoutePriority(RouteEdges(vehicle.candidate_routes[r]),
                                            congested, vehicle.priority_weight)]])

SelectPreferred(vs, congested) ==
    [vid \in {vs[i].vehicle_id : i \in 1..Len(vs)} |->
        LET ranked == RankVehicleRoutes(vs[vid + 1], congested)
        IN IF ranked # <<>> THEN ranked[1].route ELSE None]

(* The edges whose congestion can reach the threshold; G.edges reports an   *)
(* undirected edge in one orientation, here 1-2 as (2, 1).                  *)
CongestibleEdges == {<<2, 1>>, <<2, 3>>, <<3, 4>>}

CongestedEdgeSets == SUBSET CongestibleEdges


----------------------------------------------------------------------------
(* The pipeline *)

Init ==
    /\ pc = "init"
    /\ num_pairs = 0
    /\ attempts = 0
    /\ od_pairs = <<>>
    /\ emergency_ratio = 0
    /\ routes_dict = <<>>
    /\ congested_edges = {}
    /\ vehicles = <<>>
    /\ variable_map = <<>>
    /\ Q = <<>>
    /\ bqm = [variables |-> {}, linear |-> <<>>, quadratic |-> <<>>]
    /\ method = "none"
    /\ calls = <<>>
    /\ sample = <<>>
    /\ selected_routes = <<>>
    /\ preferred_routes = <<>>
    /\ raised = "none"
    /\ graph = [nodes |-> {}, travel_time |-> <<>>]
    /\ request = [origin |-> 0, destination |-> 0, k |-> 0, timeout_paths |-> 0]
    /\ routes = <<>>

(* generate_vehicles: random.sample raises ValueError when more indices are *)
(* asked for than there are OD pairs.                                       *)
GenerateVehicles ==
    /\ pc = "init"
    /\ \E ods \in ODLists, ratio \in EmergencyRatios :
         LET n == Len(ods)
             num_emergency == NumEmergency(n, ratio)
         IN /\ od_pairs' = ods
            /\ emergency_ratio' = ratio
            /\ IF num_emergency > n
               THEN /\ pc' = "raised"
                    /\ raised' = "generate_vehicles"
                    /\ UNCHANGED vehicles
               ELSE \E emergency_indices \in RandomSample(0..(n - 1), num_emergency) :
                      /\ vehicles' = GenerateVehiclesList(ods, emergency_indices)
                      /\ pc' = "generated"
                      /\ UNCHANGED raised
    /\ UNCHANGED <<routes_dict, congested_edges, variable_map, Q, bqm, method, calls,
                   sample, selected_routes, preferred_routes>>
    /\ UNCHANGED routes_vars
    /\ UNCHANGED od_vars

AssignRoutesToVehicles ==
    /\ pc = "generated"
    /\ \E rd \in RoutesDicts :
         /\ routes_dict' = rd
         /\ vehicles' = AssignRoutes(vehicles, rd)
    /\ pc' = "assigned"
    /\ UNCHANGED <<emergency_ratio, congested_edges, variable_map, Q, bqm, method,
                   calls, sample, selected_routes, preferred_routes, raised>>
    /\ UNCHANGED routes_vars
    /\ UNCHANGED <<od_vars, od_pairs>>

BuildPriorityAwareQubo ==
    /\ pc = "assigned"
    /\ variable_map' = CreateQuboVariables(vehicles)
    /\ Q' = BuildQubo(vehicles, variable_map', CongestionWeight)
    /\ bqm' = BuildBqm(Q')
    /\ pc' = "formulated"
    /\ UNCHANGED <<emergency_ratio, routes_dict, congested_edges, vehicles, method,
                   calls, sample, selected_routes, preferred_routes, raised>>
    /\ UNCHANGED routes_vars
    /\ UNCHANGED <<od_vars, od_pairs>>

(* A second build_priority_aware_qubo call on the same vehicle list.        *)
BuildPriorityAwareQuboAgain ==
    /\ pc = "formulated"
    /\ variable_map' = CreateQuboVariables(vehicles)
    /\ Q' = BuildQubo(vehicles, variable_map', CongestionWeight)
    /\ bqm' = BuildBqm(Q')
    /\ pc' = "reformulated"
    /\ UNCHANGED <<emergency_ratio, routes_dict, congested_edges, vehicles, method,
                   calls, sample, selected_routes, preferred_routes, raised>>
    /\ UNCHANGED routes_vars
    /\ UNCHANGED <<od_vars, od_pairs>>

SelectPreferredRoutes ==
    /\ pc = "assigned"
    /\ \E ce \in CongestedEdgeSets :
         /\ congested_edges' = ce
         /\ preferred_routes' = SelectPreferred(vehicles, ce)
    /\ pc' = "ranked"
    /\ UNCHANGED <<emergency_ratio, routes_dict, vehicles, variable_map, Q, bqm,
                   method, calls, sample, selected_routes, raised>>
    /\ UNCHANGED routes_vars
    /\ UNCHANGED <<od_vars, od_pairs>>

SolveTrafficQubo ==
    /\ pc = "formulated"
    /\ \E m \in Methods :
         \E run \in SolveTrafficQuboRuns(m, bqm, variable_map, vehicles) :
            /\ method' = m
            /\ calls' = run.calls
            /\ raised' = run.raised
            /\ sample' = run.sample
            /\ selected_routes' = run.selected_routes
            /\ pc' = IF run.raised = "none" THEN "done" ELSE "raised"
    /\ UNCHANGED <<emergency_ratio, routes_dict, congested_edges, vehicles,
                   variable_map, Q, bqm, preferred_routes>>
    /\ UNCHANGED routes_vars
    /\ UNCHANGED <<od_vars, od_pairs>>

Next ==
    \/ GenerateVehicles
    \/ AssignRoutesToVehicles
    \/ BuildPriorityAwareQubo
    \/ BuildPriorityAwareQuboAgain
    \/ SelectPreferredRoutes
    \/ SolveTrafficQubo

Spec == Init /\ [][Next]_vars

----------------------------------------------------------------------------
(* Route enumeration on its own: a graph, then one find_candidate_routes   *)
(* call on it.                                                             *)

BuildGraph ==
    /\ pc = "init"
    /\ graph' \in Graphs
    /\ pc' = "network"
    /\ UNCHANGED <<request, routes>>
    /\ UNCHANGED pipeline_vars
    /\ UNCHANGED <<od_vars, od_pairs>>

FindRoutes ==
    /\ pc = "network"
    /\ \E req \in Requests :
         /\ request' = req
         /\ routes' \in FindCandidateRoutes(graph, req.origin, req.destination,
                                            req.k, req.timeout_paths)
    /\ pc' = "routes"
    /\ UNCHANGED graph
    /\ UNCHANGED pipeline_vars
    /\ UNCHANGED <<od_vars, od_pairs>>

NextRoutes ==
    \/ BuildGraph
    \/ FindRoutes

SpecRoutes == Init /\ [][NextRoutes]_vars

----------------------------------------------------------------------------
(* network_builder.py: generate_od_pairs, one loop iteration per step.     *)

(* Graphs of 0..NumNodes nodes, without edges or with the one edge 1-2.    *)
ODGraphs ==
    {[nodes |-> 1..n, travel_time |-> <<>>] : n \in 0..NumNodes}
    \cup {[nodes |-> 1..n, travel_time |-> ({1, 2} :> 1)] : n \in 2..NumNodes}

(* random.sample(nodes, 2) with the same node allowed twice.               *)
SampleTwoWithReplacement(nodes) == nodes \X nodes

(* random.sample(nodes, 2): two different nodes, in any order.             *)
SampleTwo(nodes) == {od \in nodes \X nodes : od[1] # od[2]}

HasPath(g, origin, destination) == SimplePaths(g, origin, destination) # {}

(* nodes[0]: G.nodes lists the nodes in insertion order.                   *)
FirstNode(g) == CHOOSE n \in g.nodes : \A m \in g.nodes : n <= m

(* The entry of generate_od_pairs, up to the first loop. With no node      *)
(* nodes[0] raises IndexError.                                             *)
GenerateOdPairs ==
    /\ pc = "init"
    /\ \E g \in ODGraphs, n \in 0..MaxPairs :
         /\ graph' = g
         /\ num_pairs' = n
         /\ IF g.nodes = {}
            THEN /\ pc' = "raised"
                 /\ raised' = "generate_od_pairs"
                 /\ UNCHANGED od_pairs
            ELSE IF Cardinality(g.nodes) < 2
            THEN /\ od_pairs' = [i \in 1..n |-> <<FirstNode(g), FirstNode(g)>>]
                 /\ pc' = "od_returned"
                 /\ UNCHANGED raised
            ELSE /\ od_pairs' = <<>>
                 /\ pc' = "od_attempts"
                 /\ UNCHANGED raised
    /\ attempts' = 0
    /\ UNCHANGED <<emergency_ratio, routes_dict, congested_edges, vehicles,
                   variable_map, Q, bqm, method, calls, sample, selected_routes,
                   preferred_routes>>
    /\ UNCHANGED <<request, routes>>

(* One iteration of the first while loop.                                  *)
AttemptPair ==
    /\ pc = "od_attempts"
    /\ Len(od_pairs) < num_pairs
    /\ attempts < num_pairs * MaxAttemptsFactor
    /\ \E od \in SampleTwo(graph.nodes) :
         od_pairs' = IF HasPath(graph, od[1], od[2])
                     THEN Append(od_pairs, od) ELSE od_pairs
    /\ attempts' = attempts + 1
    /\ UNCHANGED <<pc, num_pairs>>
    /\ UNCHANGED pipeline_vars
    /\ UNCHANGED routes_vars

(* The first loop's condition fails.                                       *)
EndAttempts ==
    /\ pc = "od_attempts"
    /\ ~(Len(od_pairs) < num_pairs /\ attempts < num_pairs * MaxAttemptsFactor)
    /\ pc' = "od_fill"
    /\ UNCHANGED <<od_vars, od_pairs>>
    /\ UNCHANGED pipeline_vars
    /\ UNCHANGED routes_vars

(* One iteration of the fill loop.                                         *)
FillPair ==
    /\ pc = "od_fill"
    /\ Len(od_pairs) < num_pairs
    /\ \E od \in SampleTwo(graph.nodes) : od_pairs' = Append(od_pairs, od)
    /\ UNCHANGED <<pc, od_vars>>
    /\ UNCHANGED pipeline_vars
    /\ UNCHANGED routes_vars

ReturnOdPairs ==
    /\ pc = "od_fill"
    /\ ~(Len(od_pairs) < num_pairs)
    /\ pc' = "od_returned"
    /\ UNCHANGED <<od_vars, od_pairs>>
    /\ UNCHANGED pipeline_vars
    /\ UNCHANGED routes_vars

NextOD ==
    \/ GenerateOdPairs
    \/ AttemptPair
    \/ EndAttempts
    \/ FillPair
    \/ ReturnOdPairs

(* The call keeps running until it returns or raises.                      *)
SpecOD == Init /\ [][NextOD]_vars /\ WF_vars(NextOD)

InOdLoops == pc \in {"od_attempts", "od_fill"}

\* C18: on a graph with at least two nodes and num_pairs >= 0,
\* generate_od_pairs makes at most 10 * num_pairs path-check attempts, adds
\* one pair per fill iteration, always returns, and returns exactly num_pairs
\* pairs of two different nodes; a pair with origin = destination is returned
\* only for a graph with fewer than two nodes.
C18_OdPairsTerminate ==
    /\ [](InOdLoops =>
            /\ Cardinality(graph.nodes) >= 2
            /\ attempts <= MaxAttemptsFactor * num_pairs
            /\ Len(od_pairs) <= num_pairs)
    /\ [][pc = "od_fill" /\ pc' = "od_fill" => Len(od_pairs') = Len(od_pairs) + 1]_vars
    /\ [](pc = "od_returned" =>
            /\ Len(od_pairs) = num_pairs
            /\ Cardinality(graph.nodes) >= 2 =>
                  \A i \in 1..Len(od_pairs) :
                      /\ od_pairs[i][1] # od_pairs[i][2]
                      /\ od_pairs[i][1] \in graph.nodes
                      /\ od_pairs[i][2] \in graph.nodes
            /\ (\E i \in 1..Len(od_pairs) : od_pairs[i][1] = od_pairs[i][2])
                  => Cardinality(graph.nodes) < 2)
    /\ (InOdLoops ~> pc = "od_returned")

C18_Witness ==
    /\ pc = "od_returned"
    /\ Cardinality(graph.nodes) >= 2
    /\ num_pairs = MaxPairs
    /\ attempts = MaxAttemptsFactor * num_pairs
    /\ Len(od_pairs) = MaxPairs
    /\ \E i \in 1..Len(od_pairs) : ~HasPath(graph, od_pairs[i][1], od_pairs[i][2])

----------------------------------------------------------------------------
(* Properties of the scenario (traffic_simulator.py)                        *)

EmergencyIds ==
    {i \in 1..Len(vehicles) : vehicles[i].type = "emergency"}

\* C13: for every list of N OD pairs and every emergency ratio,
\* generate_vehicles does not raise and returns N vehicles of which exactly
\* max(1, floor(N * ratio)) have type emergency.
C13_EmergencyCount ==
    /\ raised # "generate_vehicles"
    /\ pc \notin {"init", "raised"} /\ emergency_ratio > 0 =>
          /\ Len(vehicles) = Len(od_pairs)
          /\ Cardinality(EmergencyIds)
                = Max(1, (Len(od_pairs) * emergency_ratio) \div 100)

Generated == pc \notin {"init", "generated"} /\ raised # "generate_vehicles"

VehicleFieldsHold ==
    /\ (pc = "generated" \/ Generated) =>
          /\ Len(vehicles) = Len(od_pairs)
          /\ \A i \in 1..Len(vehicles) :
                /\ vehicles[i].vehicle_id = i - 1
                /\ <<vehicles[i].origin, vehicles[i].destination>> = od_pairs[i]
                /\ vehicles[i].type \in {"emergency", "regular"}
                /\ vehicles[i].priority_weight = 100 <=> vehicles[i].type = "emergency"
                /\ vehicles[i].priority_weight = 1 <=> vehicles[i].type = "regular"
    /\ Generated =>
          \A i \in 1..Len(vehicles) :
              vehicles[i].candidate_routes =
                 IF od_pairs[i] \in DOMAIN routes_dict
                 THEN routes_dict[od_pairs[i]]
                 ELSE <<>>

\* C14: after generate_vehicles and assign_routes_to_vehicles, vehicle ids are
\* the positions 0..N-1, priority_weight is 100 exactly for type emergency and
\* 1 exactly for type regular, and candidate_routes is the routes-table entry
\* of (origin, destination), or the empty list when the entry is absent;
\* formulate, solve, decode and rank leave the vehicle list as it is.
C14_VehicleInvariant ==
    /\ []VehicleFieldsHold
    /\ [][Generated => vehicles' = vehicles]_vars

C14_Witness ==
    /\ pc = "done"
    /\ Len(vehicles) = MaxVehicles
    /\ \E i, j \in 1..Len(vehicles) :
          /\ od_pairs[i] \notin DOMAIN routes_dict
          /\ vehicles[i].candidate_routes = <<>>
          /\ vehicles[i].type = "emergency"
          /\ od_pairs[j] \in DOMAIN routes_dict
          /\ Len(vehicles[j].candidate_routes) = MaxRoutes
          /\ vehicles[j].type = "regular"

----------------------------------------------------------------------------
(* Properties of the formulation (qubo_builder.py)                          *)

VehicleIds == {vehicles[i].vehicle_id : i \in 1..Len(vehicles)}

Candidates(vid) == vehicles[vid + 1].candidate_routes

Ones(vid) ==
    {r \in 0..(Len(Candidates(vid)) - 1) : Get(sample, VarName(vid, r)) = 1}

EntryVehicle(i) == vehicles[variable_map[i].key[1] + 1]

EntryRoute(i) == EntryVehicle(i).candidate_routes[variable_map[i].key[2] + 1]

DirectedShared(i, j) ==
    Cardinality(Range(RouteEdges(EntryRoute(i))) \cap Range(RouteEdges(EntryRoute(j))))

Segments(route) == {{route[n], route[n + 1]} : n \in 1..(Len(route) - 1)}

UndirectedShared(i, j) ==
    Cardinality(Segments(EntryRoute(i)) \cap Segments(EntryRoute(j)))

CoeffAt(i, j) ==
    IF <<variable_map[i].name, variable_map[j].name>> \in DOMAIN Q
    THEN Q[<<variable_map[i].name, variable_map[j].name>>]
    ELSE 0

ConstraintPart(i, j) ==
    IF variable_map[i].key[1] = variable_map[j].key[1] THEN 2 * Unit ELSE 0

EntryPairs == {ij \in (1..Len(variable_map)) \X (1..Len(variable_map)) : ij[1] < ij[2]}

\* C1: whenever every vehicle has at least one candidate route, every
\* minimum-objective sample of the exact solver sets exactly one variable per
\* vehicle, and the decoded result gives every vehicle a route.
C1_ExactlyOneRoutePerVehicle ==
    (/\ pc = "done"
     /\ method = "exact"
     /\ \A vid \in VehicleIds : Candidates(vid) # <<>>)
    => /\ \A vid \in VehicleIds : Cardinality(Ones(vid)) = 1
       /\ DOMAIN selected_routes = VehicleIds

SoleVehicleNoConflict ==
    /\ pc = "formulated"
    /\ Len(vehicles) = 1
    /\ Len(Candidates(0)) >= 1
    /\ \A r1, r2 \in 1..Len(Candidates(0)) :
          r1 # r2 => Range(RouteEdges(Candidates(0)[r1]))
                        \cap Range(RouteEdges(Candidates(0)[r2])) = {}

\* C2: for a single vehicle with m >= 1 candidate routes and no conflict terms,
\* Q holds -2 on every diagonal entry and +2 on every ordered pair (i, j),
\* i # j, and nothing else; the objective of a sample that selects s variables
\* is 2 * (s - 1)^2 - 2, so it is minimal only at s = 1 and every other s costs
\* strictly more.
C2_ExactlyOnePenalty ==
    SoleVehicleNoConflict =>
        LET m == Len(Candidates(0))
            names == {VarName(0, i) : i \in 0..(m - 1)}
        IN /\ DOMAIN Q = names \X names
           /\ \A u, v \in names :
                 Q[<<u, v>>] = IF u = v THEN (0 - 2) * Unit ELSE 2 * Unit
           /\ \A x \in [names -> {0, 1}] :
                 LET s == Cardinality({u \in names : x[u] = 1})
                 IN /\ QuboObjective(Q, x) = (2 * (s - 1) * (s - 1) - 2) * Unit
                    /\ Energy(bqm, x) = QuboObjective(Q, x)
                    /\ s # 1 => QuboObjective(Q, x) > (0 - 2) * Unit

C2_Witness ==
    /\ SoleVehicleNoConflict
    /\ Len(Candidates(0)) = MaxRoutes

\* C3: two candidate routes that traverse the same road segment, in the same
\* or in opposite directions, get the conflict penalty for it on the
\* coefficient of their two variables.
C3_UndirectedConflicts ==
    pc = "formulated" =>
        \A ij \in EntryPairs :
            LET i == ij[1]
                j == ij[2]
            IN UndirectedShared(i, j) > 0 =>
                 CoeffAt(i, j) = ConstraintPart(i, j)
                    + UndirectedShared(i, j) * CongestionWeight
                        * ((Unit \div EntryVehicle(i).priority_weight)
                           + (Unit \div EntryVehicle(j).priority_weight))

MixedPairSharingOneEdge(i, j) ==
    /\ variable_map[i].key[1] # variable_map[j].key[1]
    /\ EntryVehicle(i).type # EntryVehicle(j).type
    /\ DirectedShared(i, j) = 1

\* C4: the coefficient of two variables is the exactly-one term plus, for
\* every edge both routes traverse (as the formulator keys edges: in the same
\* direction), congestion_weight * (1/p1 + 1/p2); an emergency and a regular
\* vehicle sharing exactly one edge get exactly 1.01, two regular vehicles 2
\* and two emergency vehicles 0.02.
C4_ConflictPenaltyValue ==
    pc = "formulated" =>
        \A ij \in EntryPairs :
            LET i == ij[1]
                j == ij[2]
                p1 == EntryVehicle(i).priority_weight
                p2 == EntryVehicle(j).priority_weight
                conflict == CoeffAt(i, j) - ConstraintPart(i, j)
            IN /\ conflict = DirectedShared(i, j) * CongestionWeight
                                * ((Unit \div p1) + (Unit \div p2))
               /\ DirectedShared(i, j) = 1 =>
                    /\ (p1 # p2) => conflict * 100 = 101 * Unit
                    /\ (p1 = RegularPriority /\ p2 = RegularPriority)
                          => conflict = 2 * Unit
                    /\ (p1 = EmergencyPriority /\ p2 = EmergencyPriority)
                          => conflict * 100 = 2 * Unit
                    /\ (p1 # p2) => (conflict < 2 * Unit /\ conflict * 100 > 2 * Unit)

C4_Witness ==
    /\ pc = "formulated"
    /\ \E ij \in EntryPairs :
          /\ MixedPairSharingOneEdge(ij[1], ij[2])
          /\ CoeffAt(ij[1], ij[2]) * 100 = 101 * Unit

\* C5: the heuristic result and the decoded result both have exactly the
\* vehicle ids as their keys.
C5_ResultCoverage ==
    /\ pc = "ranked" => DOMAIN preferred_routes = VehicleIds
    /\ pc = "done" => DOMAIN selected_routes = VehicleIds

TwoVehiclesTwoDisjointRoutes ==
    /\ Len(vehicles) = 2
    /\ \A vid \in VehicleIds : Len(Candidates(vid)) = 2
    /\ \A i \in 1..(Len(Candidates(0)) - 1), j \in 1..(Len(Candidates(1)) - 1) :
          /\ TravelTime(Network, Candidates(0)[i]) <= TravelTime(Network, Candidates(0)[i + 1])
          /\ TravelTime(Network, Candidates(1)[j]) <= TravelTime(Network, Candidates(1)[j + 1])
    /\ \A ij \in EntryPairs : UndirectedShared(ij[1], ij[2]) = 0

\* C11: with 2 vehicles, 2 candidate routes each in ascending travel_time and
\* no edge shared between any two routes, selecting route 0 for both vehicles
\* attains the minimum of the objective, and the exact solver's result is
\* route 0 for each vehicle.
C11_ExactPrefersCheapest ==
    (pc = "done" /\ method = "exact" /\ TwoVehiclesTwoDisjointRoutes) =>
        /\ \A x \in Samples(bqm) :
              Energy(bqm, [v \in bqm.variables |->
                              IF v \in {VarName(0, 0), VarName(1, 0)} THEN 1 ELSE 0])
                 <= Energy(bqm, x)
        /\ \A vid \in VehicleIds :
              /\ vid \in DOMAIN selected_routes
              /\ selected_routes[vid] = Candidates(vid)[1]

ConflictPart(i, j) ==
    DirectedShared(i, j) * CongestionWeight
        * ((Unit \div EntryVehicle(i).priority_weight)
           + (Unit \div EntryVehicle(j).priority_weight))

\* C12: every coefficient of Q is the sum of all contributions to its pair:
\* -2 on the diagonal; on a pair of two variables, +2 when they belong to the
\* same vehicle, plus one conflict penalty per edge both routes traverse (e
\* shared edges give e penalties), added to the entry keyed in variable
\* order; and Q has an entry exactly for the pairs that received a
\* contribution.
C12_AdditiveAccumulation ==
    pc = "formulated" =>
        \A i, j \in 1..Len(variable_map) :
            LET key == <<variable_map[i].name, variable_map[j].name>>
                expected == IF i = j THEN (0 - 2) * Unit
                            ELSE IF i < j THEN ConstraintPart(i, j) + ConflictPart(i, j)
                            ELSE ConstraintPart(i, j)
            IN /\ CoeffAt(i, j) = expected
               /\ key \in DOMAIN Q <=> expected # 0

C12_Witness ==
    /\ pc = "formulated"
    /\ \E ij \in EntryPairs :
          /\ ConstraintPart(ij[1], ij[2]) > 0
          /\ DirectedShared(ij[1], ij[2]) = 1
          /\ CoeffAt(ij[1], ij[2]) = 2 * Unit + ConflictPart(ij[1], ij[2])
    /\ \E ij \in EntryPairs :
          /\ DirectedShared(ij[1], ij[2]) = 2
          /\ ConstraintPart(ij[1], ij[2]) = 0
          /\ CoeffAt(ij[1], ij[2]) = 2 * CongestionWeight
                * ((Unit \div EntryVehicle(ij[1]).priority_weight)
                   + (Unit \div EntryVehicle(ij[2]).priority_weight))

----------------------------------------------------------------------------
(* Properties of the ranking heuristic (priority_logic.py)                  *)

OverlapCount(route) ==
    Cardinality({n \in 1..(Len(route) - 1) :
                    \/ <<route[n], route[n + 1]>> \in congested_edges
                    \/ <<route[n + 1], route[n]>> \in congested_edges})

IndexPermutations(n) == {f \in [1..n -> 1..n] : \A a, b \in 1..n : a # b => f[a] # f[b]}

\* C15: rank_vehicle_routes returns every candidate route of the vehicle
\* exactly once with score priority_weight / (1 + overlapCount), in
\* non-increasing score, routes of equal score in their candidate order;
\* select_preferred_routes gives each vehicle the first route of its ranking
\* (None when it has no candidate).
C15_HeuristicRanking ==
    pc = "ranked" =>
        \A vid \in VehicleIds :
            LET cands == Candidates(vid)
                p == vehicles[vid + 1].priority_weight
                ranked == RankVehicleRoutes(vehicles[vid + 1], congested_edges)
                n == Len(cands)
            IN /\ Len(ranked) = n
               /\ \E f \in IndexPermutations(n) :
                     /\ \A i \in 1..n :
                           /\ ranked[i].route = cands[f[i]]
                           /\ ranked[i].score[1] * (1 + OverlapCount(cands[f[i]]))
                                 = p * ranked[i].score[2]
                     /\ \A i, j \in 1..n : i < j =>
                           /\ OverlapCount(cands[f[i]]) <= OverlapCount(cands[f[j]])
                           /\ OverlapCount(cands[f[i]]) = OverlapCount(cands[f[j]])
                                 => f[i] < f[j]
               /\ preferred_routes[vid] = IF n > 0 THEN ranked[1].route ELSE None

C15_Witness ==
    /\ pc = "ranked"
    /\ \E v, w \in VehicleIds :
          /\ Len(Candidates(v)) >= 2
          /\ OverlapCount(Candidates(v)[2]) < OverlapCount(Candidates(v)[1])
          /\ preferred_routes[v] = Candidates(v)[2]
          /\ Len(Candidates(w)) >= 2
          /\ OverlapCount(Candidates(w)[1]) = OverlapCount(Candidates(w)[2])
          /\ preferred_routes[w] = Candidates(w)[1]
          /\ Candidates(w)[1] # Candidates(w)[2]

Formulated == pc \in {"formulated", "reformulated", "done"} \/ calls # <<>>

\* C17: the variable index holds exactly the pairs (vehicle_id, route_index)
\* with route_index below the vehicle's number of candidate routes, each
\* once, in vehicle-id then route-index order, under names that are pairwise
\* different; build_qubo, the solver call and decode_solution leave it
\* unchanged.
C17_VariableIndex ==
    /\ [](Formulated =>
            /\ Range([i \in 1..Len(variable_map) |-> variable_map[i].key])
                  = UNION {{<<vid, r>> : r \in 0..(Len(Candidates(vid)) - 1)} :
                              vid \in VehicleIds}
            /\ \A i, j \in 1..Len(variable_map) : i < j =>
                  /\ \/ variable_map[i].key[1] < variable_map[j].key[1]
                     \/ /\ variable_map[i].key[1] = variable_map[j].key[1]
                        /\ variable_map[i].key[2] < variable_map[j].key[2]
                  /\ variable_map[i].name # variable_map[j].name
            /\ bqm.variables \subseteq Range([i \in 1..Len(variable_map) |->
                                                variable_map[i].name]))
    /\ [][Formulated => variable_map' = variable_map]_vars

C17_Witness ==
    /\ pc = "done"
    /\ Len(vehicles) = MaxVehicles
    /\ Len(variable_map) = MaxVehicles * MaxRoutes
    /\ DOMAIN selected_routes = VehicleIds

----------------------------------------------------------------------------
(* Properties of find_candidate_routes (network_builder.py)                 *)

Connected == SimplePaths(graph, request.origin, request.destination) # {}

NoRepeatedNode(r) == \A a, b \in 1..Len(r) : a # b => r[a] # r[b]

FromOriginToDestination(r) ==
    /\ Len(r) >= 1
    /\ r[1] = request.origin
    /\ r[Len(r)] = request.destination

\* C6: find_candidate_routes returns for every graph (one with no edges
\* included), origin, destination, k and budget, and what it returns holds at
\* least one route and no empty route; when origin # destination and no path
\* connects them (or a node is missing), the list holds [origin, destination].
C6_RoutesNeverEmpty ==
    /\ pc = "network" =>
          \A req \in Requests :
              FindCandidateRoutes(graph, req.origin, req.destination,
                                  req.k, req.timeout_paths) # {}
    /\ pc = "routes" =>
          /\ Len(routes) >= 1
          /\ \A i \in 1..Len(routes) : Len(routes[i]) >= 1
          /\ (request.origin # request.destination /\ ~Connected)
                => <<request.origin, request.destination>> \in Range(routes)

C6_Witness ==
    /\ pc = "routes"
    /\ DOMAIN graph.travel_time = {}
    /\ request.origin \in graph.nodes
    /\ request.destination \in graph.nodes
    /\ request.origin # request.destination
    /\ request.k >= 1
    /\ routes = <<<<request.origin, request.destination>>>>

RoutesWellFormed ==
    /\ \A i, j \in 1..Len(routes) : i # j => routes[i] # routes[j]
    /\ \A i \in 1..Len(routes) :
          /\ NoRepeatedNode(routes[i])
          /\ FromOriginToDestination(routes[i])
    /\ \A i \in 1..(Len(routes) - 1) :
          TravelTime(graph, routes[i]) <= TravelTime(graph, routes[i + 1])
    /\ request.origin = request.destination => routes = <<<<request.origin>>>>

\* C7 as stated: at most k routes for every k, pairwise distinct, each without
\* a repeated node from origin to destination, in non-decreasing travel_time;
\* exactly [origin] when origin = destination.
C7_AtMostKOrdered ==
    pc = "routes" =>
        /\ Len(routes) <= request.k
        /\ RoutesWellFormed

\* C7 amended: at most max(1, k) routes (at most k whenever k >= 1), pairwise
\* distinct, each without a repeated node from origin to destination, in
\* non-decreasing travel_time, and each a path of the graph unless the list is
\* the lone fallback [origin, destination]; exactly [origin] when
\* origin = destination.
C7_AtMostKOrderedFromOne ==
    pc = "routes" =>
        /\ Len(routes) <= Max(1, request.k)
        /\ RoutesWellFormed
        /\ \/ routes = <<<<request.origin>>>>
           \/ routes = <<<<request.origin, request.destination>>>>
           \/ \A i \in 1..Len(routes) :
                 routes[i] \in SimplePaths(graph, request.origin, request.destination)

C7_Witness ==
    /\ pc = "routes"
    /\ request.k = 2
    /\ Len(routes) = 2
    /\ TravelTime(graph, routes[1]) < TravelTime(graph, routes[2])

----------------------------------------------------------------------------
(* Properties of solving and decoding (solver.py)                           *)

\* C8: a solve_traffic_qubo call with the remote-hybrid method invokes the
\* remote backend and nothing else; when the remote call fails the exception
\* reaches the caller, no sample is decoded and no mapping is returned.
C8_RemoteFailureSurfaced ==
    method = "dwave" =>
        /\ calls = <<"solve_with_dwave_hybrid">>
        /\ raised \in {"none", "solve_with_dwave_hybrid"}
        /\ raised = "none" => pc = "done"
        /\ raised # "none" =>
              /\ pc = "raised"
              /\ sample = <<>>
              /\ selected_routes = <<>>

C8_Witness ==
    /\ pc = "raised"
    /\ method = "dwave"
    /\ raised = "solve_with_dwave_hybrid"
    /\ variable_map # <<>>

\* C9: decode_solution gives a vehicle a route exactly when one of its
\* variables is 1 in the sample, and the route is the vehicle's own candidate
\* with the highest route index among its variables that are 1.
C9_DecoderLastWriteWins ==
    pc = "done" =>
        /\ DOMAIN selected_routes = {vid \in VehicleIds : Ones(vid) # {}}
        /\ \A vid \in DOMAIN selected_routes :
              LET last == CHOOSE r \in Ones(vid) : \A q \in Ones(vid) : q <= r
              IN selected_routes[vid] = Candidates(vid)[last + 1]

C9_Witness ==
    /\ pc = "done"
    /\ \E vid \in VehicleIds :
          /\ Ones(vid) = {0, 1}
          /\ Candidates(vid)[1] # Candidates(vid)[2]
          /\ selected_routes[vid] = Candidates(vid)[2]

\* C19: a solve_traffic_qubo call invokes exactly one backend: the exact
\* solver exactly for method "exact", the remote hybrid solver exactly for
\* "dwave", simulated annealing for every other method, unrecognized ones
\* included; the sample the backend returns is decoded, the only error
\* reported is one raised by the backend, and none for an unrecognized method.
C19_SolverDispatch ==
    calls # <<>> =>
        /\ Len(calls) = 1
        /\ calls[1] = "solve_exact" <=> method = "exact"
        /\ calls[1] = "solve_with_dwave_hybrid" <=> method = "dwave"
        /\ calls[1] = "solve_with_simulated_annealing" <=> method \notin {"exact", "dwave"}
        /\ raised \in {"none", calls[1]}
        /\ method \notin {"exact", "dwave"} => raised = "none"
        /\ raised = "none" =>
              /\ pc = "done"
              /\ sample \in [bqm.variables -> {0, 1}]
              /\ selected_routes = DecodeSolution(sample, variable_map, vehicles)

C19_Witness ==
    /\ pc = "done"
    /\ method = "qaoa"
    /\ calls = <<"solve_with_simulated_annealing">>
    /\ selected_routes # <<>>

\* C10: for every vehicle list made by generate_vehicles and
\* assign_routes_to_vehicles, formulate -> local solve -> decode ends without
\* an exception, and every vehicle in the result has a route of length >= 1.
C10_NoExceptionLocalSolve ==
    (pc \in {"done", "raised"} /\ method \in Methods \ {"dwave"}) =>
        /\ pc = "done"
        /\ \A vid \in DOMAIN selected_routes : Len(selected_routes[vid]) >= 1

====
